---- MODULE Spec2Model ----
(***************************************************************************)
(* Model of the Hyperscripts file viewers (src/dxf_stp.py, src/dxf_app.py).*)
(*                                                                         *)
(* The one piece of original logic is get_dimensions, which walks the      *)
(* entities of a parsed drawing's modelspace and returns the width and     *)
(* height of their bounding box, or (None, None).  The rest is the upload  *)
(* handlers that call it: main, process_dxf, process_stp.                  *)
(*                                                                         *)
(* Coordinates are integers here; the code's floats are only added,        *)
(* subtracted and compared.                                                *)
(***************************************************************************)
EXTENDS Integers, Sequences, FiniteSets, TLC

VARIABLES
    app,            \* which viewer script runs: "dxf_stp" or "dxf_app"
    pc,             \* position of the script run
    picked,         \* the file the user picked in the browser (NoFile before that)
    handler,        \* the upload handler main called: "none", "process_dxf", "process_stp"
    uploaded_file,  \* what st.file_uploader returned: NoFile or the file's name parts
    doc,            \* the modelspace (sequence of entities) of the loaded drawing
    dims,           \* the outcome of get_dimensions(doc)
    shape,          \* outcome of read_step_file: "unset", "none" or "shape"
    vertices,       \* outcome of shape_to_mesh: "unset", "none", "empty" or "mesh"
    ui,             \* the elements the page shows, in the order they were emitted
    tmp,            \* the temporary files that exist on disk
    calls           \* the invocations of get_dimensions that run side by side

vars == <<app, pc, picked, handler, uploaded_file, doc, dims, shape, vertices, ui, tmp, calls>>

----------------------------------------------------------------------------
(* Bounds of the model *)

\* most entities in a modelspace given to get_dimensions on its own
MaxEntities == 2
\* most vertices of a polyline / control points of a spline
MaxPts == 1
\* most entities in a modelspace that goes through a whole upload handler
MaxAppEntities == 1
\* most entities in the modelspace of an invocation that runs beside another
MaxConcEntities == 2

\* coordinate values and radius values of the drawings explored
Coord == {0, 1}
Radius == {-1, 0, 1}

----------------------------------------------------------------------------
(* The drawing entities ezdxf hands to get_dimensions *)

Point == [x : Coord, y : Coord]

\* all sequences over S of length at most n
SeqUpTo(S, n) == UNION {[1..k -> S] : k \in 0..n}

\* What iterating a polyline entity yields.  A POLYLINE yields DXFVertex
\* entities, whose dxf namespace holds "location" (a point) and no "x" or
\* "y"; an LWPOLYLINE yields plain tuples (x, y, start_width, end_width,
\* bulge), which have no attribute "dxf" at all.
VertexOf(kind, p) ==
    [cls |-> IF kind = "POLYLINE" THEN "DXFVertex" ELSE "tuple", x |-> p.x, y |-> p.y]

\* To keep the set of drawings small, arcs are centred on the diagonal and
\* polyline vertices and spline control points lie on the anti-diagonal;
\* lines and circles range over every point.
ArcCenter == {p \in Point : p.x = p.y}
PathPoint == {p \in Point : p.x + p.y = 1}

Lines == [kind : {"LINE"}, start : Point, end : Point]
Circles == [kind : {"CIRCLE"}, center : Point, radius : Radius]
Arcs == [kind : {"ARC"}, center : ArcCenter, radius : Radius]
Polylines ==
    {[kind |-> k, vertices |-> [i \in DOMAIN ps |-> VertexOf(k, ps[i])]] :
        k \in {"POLYLINE", "LWPOLYLINE"}, ps \in SeqUpTo(PathPoint, MaxPts)}
Splines == [kind : {"SPLINE"}, control_points : SeqUpTo(PathPoint, MaxPts)]
\* entity kinds get_dimensions has no branch for
Unrecognized == [kind : {"TEXT"}]

Entities == Lines \cup Circles \cup Arcs \cup Polylines \cup Splines \cup Unrecognized

----------------------------------------------------------------------------
(* Python values *)

\* a value that is either None or a number
None == [none |-> TRUE, val |-> 0]
Num(n) == [none |-> FALSE, val |-> n]

\* the exception classes the handlers can see
NoExc == "none"

\* a variant of max() that takes the last element, as if the list were sorted
max_last(coords) == coords[Len(coords)]

\* max() and min() of a non-empty list
max(coords) ==
    CHOOSE m \in {coords[i] : i \in DOMAIN coords} :
        \A i \in DOMAIN coords : coords[i] <= m
min(coords) ==
    CHOOSE m \in {coords[i] : i \in DOMAIN coords} :
        \A i \in DOMAIN coords : m <= coords[i]

----------------------------------------------------------------------------
(* get_dimensions: the loop body, one operator per branch.  acc holds the    *)
(* two local lists and the exception (if any) that ended the call.           *)

EmptyAcc == [x_coords |-> <<>>, y_coords |-> <<>>, exc |-> NoExc]

\* if entity.dxftype() == 'LINE'
line_branch(acc, entity) ==
    [acc EXCEPT !.x_coords = @ \o <<entity.start.x, entity.end.x>>,
                !.y_coords = @ \o <<entity.start.y, entity.end.y>>]

\* elif entity.dxftype() == 'CIRCLE'
circle_branch(acc, entity) ==
    LET center == entity.center
        radius == entity.radius
    IN [acc EXCEPT !.x_coords = @ \o <<center.x - radius, center.x + radius>>,
                   !.y_coords = @ \o <<center.y - radius, center.y + radius>>]

\* elif entity.dxftype() == 'ARC'
arc_branch(acc, entity) ==
    LET center == entity.center
        radius == entity.radius
    IN [acc EXCEPT !.x_coords = @ \o <<center.x - radius, center.x + radius>>,
                   !.y_coords = @ \o <<center.y - radius, center.y + radius>>]

\* The attributes a yielded vertex object has, and the names its dxf
\* namespace resolves.
ObjAttrs(cls) == IF cls = "DXFVertex" THEN {"dxf"} ELSE {}
DxfAttrs(cls) ==
    IF cls = "DXFVertex"
    THEN {"location", "start_width", "end_width", "bulge", "flags"}
    ELSE {}

\* vertex.dxf.x and vertex.dxf.y: the exception the lookup raises, or NoExc
vertex_dxf_exc(vertex) ==
    IF "dxf" \notin ObjAttrs(vertex.cls) THEN "AttributeError"
    ELSE IF ~({"x", "y"} \subseteq DxfAttrs(vertex.cls)) THEN "DXFAttributeError"
    ELSE NoExc

\* elif entity.dxftype() == 'POLYLINE' or entity.dxftype() == 'LWPOLYLINE':
\*     for vertex in entity: append vertex.dxf.x, vertex.dxf.y
RECURSIVE vertex_loop(_, _)
vertex_loop(acc, vs) ==
    IF vs = <<>> THEN acc
    ELSE LET vertex == Head(vs)
             exc == vertex_dxf_exc(vertex)
         IN IF exc # NoExc
            THEN [acc EXCEPT !.exc = exc]
            ELSE vertex_loop([acc EXCEPT !.x_coords = Append(@, vertex.x),
                                         !.y_coords = Append(@, vertex.y)],
                             Tail(vs))

polyline_branch(acc, entity) == vertex_loop(acc, entity.vertices)

\* elif entity.dxftype() == 'SPLINE':
\*     for point in entity.control_points: append point[0], point[1]
RECURSIVE point_loop(_, _)
point_loop(acc, ps) ==
    IF ps = <<>> THEN acc
    ELSE point_loop([acc EXCEPT !.x_coords = Append(@, Head(ps).x),
                                !.y_coords = Append(@, Head(ps).y)],
                    Tail(ps))

spline_branch(acc, entity) == point_loop(acc, entity.control_points)

\* a variant in which an entity of an unhandled kind counts as a point at the origin
no_branch_origin(acc, entity) ==
    [acc EXCEPT !.x_coords = Append(@, 0), !.y_coords = Append(@, 0)]

\* no branch of the if / elif chain matches: the loop goes on to the next entity
no_branch(acc, entity) == acc

\* one pass of the loop body
visit(acc, entity) ==
    IF entity.kind = "LINE" THEN line_branch(acc, entity)
    ELSE IF entity.kind = "CIRCLE" THEN circle_branch(acc, entity)
    ELSE IF entity.kind = "ARC" THEN arc_branch(acc, entity)
    ELSE IF entity.kind = "POLYLINE" \/ entity.kind = "LWPOLYLINE"
         THEN polyline_branch(acc, entity)
    ELSE IF entity.kind = "SPLINE" THEN spline_branch(acc, entity)
    ELSE no_branch(acc, entity)

\* for entity in msp: an exception ends the loop and the call
RECURSIVE entity_loop(_, _)
entity_loop(acc, msp) ==
    IF msp = <<>> \/ acc.exc # NoExc THEN acc
    ELSE entity_loop(visit(acc, Head(msp)), Tail(msp))

\* a variant that takes the last coordinate minus the first, as if the list
\* were sorted
span_last_first(coords) == coords[Len(coords)] - coords[1]

\* max(coords) - min(coords)
span(coords) == max(coords) - min(coords)

\* a variant that tests the computed width and height for truth instead of
\* the lists, so that a zero extent is reported as None
dimensions_of_truthy(x_coords, y_coords) ==
    IF x_coords # <<>> /\ y_coords # <<>>
       /\ span(x_coords) # 0 /\ span(y_coords) # 0
    THEN [exc |-> NoExc, width |-> Num(span(x_coords)), height |-> Num(span(y_coords))]
    ELSE [exc |-> NoExc, width |-> None, height |-> None]

\* if x_coords and y_coords: return width, height  else: return None, None
dimensions_of(x_coords, y_coords) ==
    IF x_coords # <<>> /\ y_coords # <<>>
    THEN [exc |-> NoExc, width |-> Num(span(x_coords)), height |-> Num(span(y_coords))]
    ELSE [exc |-> NoExc, width |-> None, height |-> None]

\* the outcome of get_dimensions on a modelspace: the pair returned, or the
\* exception that left the function
get_dimensions(msp) ==
    LET acc == entity_loop(EmptyAcc, msp)
    IN IF acc.exc # NoExc
       THEN [exc |-> acc.exc, width |-> None, height |-> None]
       ELSE dimensions_of(acc.x_coords, acc.y_coords)

\* the outcomes, named
Returned(r) == r.exc = NoExc
Undefined(r) == Returned(r) /\ r.width.none /\ r.height.none
Defined(r) == Returned(r) /\ ~r.width.none /\ ~r.height.none
NotCalled == [exc |-> "not called", width |-> None, height |-> None]

----------------------------------------------------------------------------
(* The page: what the handlers emit *)

\* f"{value:.2f}": the value shown, in hundredths of a unit
fmt2f(n) == n * 100

Image == [el |-> "image", text |-> "", a |-> 0, b |-> 0, c |-> 0]
Chart == [el |-> "plotly_chart", text |-> "", a |-> 0, b |-> 0, c |-> 0]
Error(text) == [el |-> "error", text |-> text, a |-> 0, b |-> 0, c |-> 0]
Message(text) == [el |-> "write", text |-> text, a |-> 0, b |-> 0, c |-> 0]
\* the Width / Height elements of the DXF handlers
Dimensions(width, height) ==
    [el |-> "dimensions", text |-> "", a |-> fmt2f(width), b |-> fmt2f(height), c |-> 0]
\* the Width (X) / Depth (Y) / Height (Z) metrics of process_stp
StpDimensions ==
    [el |-> "stp_dimensions", text |-> "", a |-> 0, b |-> 0, c |-> 0]

Shows(el) == \E i \in DOMAIN ui : ui[i].el = el
ShowsText(text) == \E i \in DOMAIN ui : ui[i].text = text

----------------------------------------------------------------------------
(* main: the uploader and the dispatch on the file extension *)

NoFile == [ext |-> ""]

\* the extensions of the files a user may pick
Exts == {".dxf", ".stp", ".step", ".STP", ".iges", ".igs"}

\* str.lower() on those extensions
lower(ext) == IF ext = ".STP" THEN ".stp" ELSE ext

\* the type= list of st.file_uploader, per script
uploader_types(a) ==
    IF a = "dxf_stp" THEN {".dxf", ".stp", ".step"} ELSE {".dxf"}

\* st.file_uploader: the file when its extension is an allowed type, else None
file_uploader(a, ext) ==
    IF lower(ext) \in uploader_types(a) THEN [ext |-> ext] ELSE NoFile

\* a variant of the list that leaves out '.stp'
stp_extensions_step_only == {".step"}

\* the extensions process_stp is dispatched on
stp_extensions == {".stp", ".step"}

\* where main of dxf_stp.py sends an uploaded file
dispatch(file) ==
    LET file_extension == lower(file.ext)
    IN IF file_extension = ".dxf" THEN "process_dxf"
       ELSE IF file_extension \in stp_extensions THEN "process_stp"
       ELSE "unsupported"

\* the drawings a whole handler run is explored with
AppDocs == SeqUpTo(Entities, MaxAppEntities)

Init ==
    /\ app \in {"dxf_stp", "dxf_app"}
    /\ pc = "start"
    /\ picked = NoFile
    /\ handler = "none"
    /\ uploaded_file = NoFile
    /\ doc = <<>>
    /\ dims = NotCalled
    /\ shape = "unset"
    /\ vertices = "unset"
    /\ ui = <<>>
    /\ tmp = {}
    /\ calls = <<>>

\* main up to the call of a handler: the user leaves the uploader empty or
\* picks a file, and the script dispatches on it
main ==
    /\ pc = "start"
    /\ \E ext \in Exts :
        LET file == file_uploader(app, ext)
            to == IF app = "dxf_app" THEN "process_dxf" ELSE dispatch(file)
        IN /\ picked' = [ext |-> ext]
           /\ uploaded_file' = file
           /\ IF file = NoFile
              THEN pc' = "done" /\ ui' = ui /\ handler' = handler
              ELSE IF to = "unsupported"
                   THEN /\ pc' = "done"
                        /\ ui' = Append(ui, Error("Unsupported file type."))
                        /\ handler' = handler
                   ELSE pc' = to /\ ui' = ui /\ handler' = to
    /\ UNCHANGED <<calls, app, doc, dims, shape, vertices, tmp>>

----------------------------------------------------------------------------
(* process_dxf (and the same statements inline in main of dxf_app.py) *)

\* the st.error of the except clause around the DXF handling
dxf_error(a) ==
    Error(IF a = "dxf_stp" THEN "Error processing the DXF file" ELSE "Error processing the file")

\* load_dxf: the upload is written to a temporary .dxf file
load_dxf_write ==
    /\ pc = "process_dxf"
    /\ tmp' = tmp \cup {"dxf"}
    /\ pc' = "load_dxf"
    /\ UNCHANGED <<calls, app, picked, handler, uploaded_file, doc, dims, shape, vertices, ui>>

\* load_dxf: ezdxf.readfile returns a document or raises; finally the
\* temporary file is unlinked.  A raise reaches the handler's except clause.
load_dxf_read ==
    /\ pc = "load_dxf"
    /\ tmp' = tmp \ {"dxf"}
    /\ \/ \E d \in AppDocs :
            /\ doc' = d
            /\ pc' = "render_dxf"
            /\ ui' = ui
       \/ /\ doc' = doc
          /\ pc' = "done"
          /\ ui' = Append(ui, dxf_error(app))
    /\ UNCHANGED <<calls, app, picked, handler, uploaded_file, dims, shape, vertices>>

\* render_dxf, fig_to_base64 and the image viewer; rendering may raise
render_dxf ==
    /\ pc = "render_dxf"
    /\ \/ /\ ui' = Append(ui, Image)
          /\ pc' = "get_dimensions"
       \/ /\ ui' = Append(ui, dxf_error(app))
          /\ pc' = "done"
    /\ UNCHANGED <<calls, app, picked, handler, uploaded_file, doc, dims, shape, vertices, tmp>>

\* width, height = get_dimensions(doc); a raise reaches the except clause
call_get_dimensions ==
    /\ pc = "get_dimensions"
    /\ dims' = get_dimensions(doc)
    /\ IF Returned(dims')
       THEN pc' = "present" /\ ui' = ui
       ELSE pc' = "done" /\ ui' = Append(ui, dxf_error(app))
    /\ UNCHANGED <<calls, app, picked, handler, uploaded_file, doc, shape, vertices, tmp>>

\* a variant that tests the values for truth: if width and height
has_dimensions_truthy(width, height) ==
    ~width.none /\ ~height.none /\ width.val # 0 /\ height.val # 0

\* if width is not None and height is not None
has_dimensions(width, height) == ~width.none /\ ~height.none

\* the presentation of the dimensions
present(width, height) ==
    IF has_dimensions(width, height)
    THEN Dimensions(width.val, height.val)
    ELSE Message("Unable to determine dimensions.")

present_dimensions ==
    /\ pc = "present"
    /\ ui' = Append(ui, present(dims.width, dims.height))
    /\ pc' = "done"
    /\ UNCHANGED <<calls, app, picked, handler, uploaded_file, doc, dims, shape, vertices, tmp>>

----------------------------------------------------------------------------
(* process_stp *)

\* the upload is written to a temporary .step file
process_stp_write ==
    /\ pc = "process_stp"
    /\ tmp' = tmp \cup {"step"}
    /\ pc' = "read_step_file"
    /\ UNCHANGED <<calls, app, picked, handler, uploaded_file, doc, dims, shape, vertices, ui>>

\* read_step_file: the reader's status is not RetDone, or the shape is null
\* (both return None after an st.error), or a shape is returned, or the
\* kernel raises; then process_stp's branch on the result
read_step_file ==
    /\ pc = "read_step_file"
    /\ \/ /\ shape' = "none"
          /\ ui' = ui \o <<Error("Error reading STEP file. Status code"),
                           Error("Failed to read the STEP file.")>>
          /\ pc' = "done"
       \/ /\ shape' = "none"
          /\ ui' = ui \o <<Error("No valid shape found in the STEP file."),
                           Error("Failed to read the STEP file.")>>
          /\ pc' = "done"
       \/ /\ shape' = "shape"
          /\ ui' = ui
          /\ pc' = "shape_to_mesh"
       \/ /\ shape' = shape
          /\ ui' = Append(ui, Error("Error processing the STEP file"))
          /\ pc' = "done"
    /\ UNCHANGED <<calls, app, picked, handler, uploaded_file, doc, dims, vertices, tmp>>

\* shape_to_mesh: meshing is not done (None, None); or the shape is written
\* to a temporary .stl file, which is then read into vertices and faces or
\* fails to be read (None, None); or the kernel raises
shape_to_mesh ==
    /\ pc = "shape_to_mesh"
    /\ \/ /\ vertices' = "none"
          /\ tmp' = tmp
          /\ ui' = ui \o <<Error("Meshing failed."), Error("Failed to generate mesh data.")>>
          /\ pc' = "done"
       \/ /\ vertices' = "none"
          /\ tmp' = tmp \cup {"stl"}
          /\ ui' = ui \o <<Error("Error reading STL file"),
                           Error("Failed to generate mesh data.")>>
          /\ pc' = "done"
       \/ /\ vertices' \in {"mesh", "empty"}
          /\ tmp' = tmp \cup {"stl"}
          /\ ui' = ui
          /\ pc' = "display_mesh"
       \/ /\ vertices' = vertices
          /\ tmp' = tmp
          /\ ui' = Append(ui, Error("Error processing the STEP file"))
          /\ pc' = "done"
    /\ UNCHANGED <<calls, app, picked, handler, uploaded_file, doc, dims, shape>>

\* display_mesh: an error when there are no vertices, else the chart
display_mesh ==
    /\ pc = "display_mesh"
    /\ ui' = Append(ui, IF vertices = "empty" THEN Error("No vertices to display.") ELSE Chart)
    /\ pc' = "get_stp_dimensions"
    /\ UNCHANGED <<calls, app, picked, handler, uploaded_file, doc, dims, shape, vertices, tmp>>

\* get_stp_dimensions and the three metrics; the kernel may raise
get_stp_dimensions ==
    /\ pc = "get_stp_dimensions"
    /\ \/ ui' = Append(ui, StpDimensions)
       \/ ui' = Append(ui, Error("Error processing the STEP file"))
    /\ pc' = "done"
    /\ UNCHANGED <<calls, app, picked, handler, uploaded_file, doc, dims, shape, vertices, tmp>>

----------------------------------------------------------------------------
(* The viewers *)

Next ==
    \/ main
    \/ load_dxf_write
    \/ load_dxf_read
    \/ render_dxf
    \/ call_get_dimensions
    \/ present_dimensions
    \/ process_stp_write
    \/ read_step_file
    \/ shape_to_mesh
    \/ display_mesh
    \/ get_stp_dimensions

Spec == Init /\ [][Next]_vars

----------------------------------------------------------------------------
(* get_dimensions on its own: every modelspace of up to MaxEntities entities *)

Docs == SeqUpTo(Entities, MaxEntities)

InitDims ==
    /\ app = "dxf_stp"
    /\ pc = "call"
    /\ picked = NoFile
    /\ handler = "none"
    /\ uploaded_file = NoFile
    /\ doc \in Docs
    /\ dims = NotCalled
    /\ shape = "unset"
    /\ vertices = "unset"
    /\ ui = <<>>
    /\ tmp = {}
    /\ calls = <<>>

\* the call and its outcome
get_dimensions_call ==
    /\ pc = "call"
    /\ dims' = get_dimensions(doc)
    /\ pc' = "ret"
    /\ UNCHANGED <<calls, app, picked, handler, uploaded_file, doc, shape, vertices, ui, tmp>>

NextDims == get_dimensions_call

SpecDims == InitDims /\ [][NextDims]_vars

----------------------------------------------------------------------------
(* Two invocations of get_dimensions side by side, each on its own           *)
(* modelspace.  A step of an invocation is one pass of its loop body or its  *)
(* return; the steps of the two interleave in every order.                   *)

Invocations == {1, 2}

\* the entities the modelspaces of the two invocations are made of: a line,
\* a circle of negative radius, a spline and a polyline with a vertex
ConcEntities ==
    {e \in Entities :
        \/ e.kind = "LINE" /\ e.start = [x |-> 0, y |-> 0] /\ e.end = [x |-> 1, y |-> 0]
        \/ e.kind = "CIRCLE" /\ e.center = [x |-> 1, y |-> 1] /\ e.radius = -1
        \/ e.kind = "SPLINE" /\ e.control_points = <<[x |-> 0, y |-> 1]>>
        \/ e.kind = "LWPOLYLINE" /\ Len(e.vertices) = 1 /\ e.vertices[1].x = 1}

ConcDocs == SeqUpTo(ConcEntities, MaxConcEntities)

\* an invocation at its start: msp = doc.modelspace(); x_coords, y_coords = [], []
StartCall(msp) ==
    [msp |-> msp, next |-> 1, acc |-> EmptyAcc, pc |-> "loop", result |-> NotCalled]

InitConc ==
    /\ app = "dxf_stp"
    /\ pc = "concurrent"
    /\ picked = NoFile
    /\ handler = "none"
    /\ uploaded_file = NoFile
    /\ doc = <<>>
    /\ dims = NotCalled
    /\ shape = "unset"
    /\ vertices = "unset"
    /\ ui = <<>>
    /\ tmp = {}
    /\ \E m1, m2 \in ConcDocs : calls = <<StartCall(m1), StartCall(m2)>>

\* a variant in which the lists are module-level, so that every invocation
\* reads the lists the first one made
own_lists_shared(cs, k) == cs[1].acc

\* the x_coords and y_coords of invocation k: locals of its own frame
own_lists(cs, k) == cs[k].acc

\* one pass of the loop body of invocation k on its next entity; an
\* exception ends the invocation
call_visit(k) ==
    /\ calls[k].pc = "loop"
    /\ calls[k].next <= Len(calls[k].msp)
    /\ LET acc == visit(own_lists(calls, k), calls[k].msp[calls[k].next])
       IN calls' = [calls EXCEPT ![k] =
              IF acc.exc # NoExc
              THEN [@ EXCEPT !.acc = acc, !.pc = "done",
                             !.result = [exc |-> acc.exc, width |-> None, height |-> None]]
              ELSE [@ EXCEPT !.acc = acc, !.next = @ + 1]]
    /\ UNCHANGED <<app, pc, picked, handler, uploaded_file, doc, dims, shape, vertices, ui, tmp>>

\* the loop of invocation k is over: it returns width, height or None, None
call_return(k) ==
    /\ calls[k].pc = "loop"
    /\ calls[k].next > Len(calls[k].msp)
    /\ LET acc == own_lists(calls, k)
       IN calls' = [calls EXCEPT ![k] =
              [@ EXCEPT !.pc = "done", !.result = dimensions_of(acc.x_coords, acc.y_coords)]]
    /\ UNCHANGED <<app, pc, picked, handler, uploaded_file, doc, dims, shape, vertices, ui, tmp>>

NextConc ==
    \E k \in Invocations :
        \/ call_visit(k)
        \/ call_return(k)

SpecConc == InitConc /\ [][NextConc]_vars

----------------------------------------------------------------------------
(* What the specification says a primitive contributes *)

\* the x and y contributions of one primitive, as the specification lists them
ContribX(e) ==
    IF e.kind = "LINE" THEN {e.start.x, e.end.x}
    ELSE IF e.kind \in {"CIRCLE", "ARC"} THEN {e.center.x - e.radius, e.center.x + e.radius}
    ELSE IF e.kind \in {"POLYLINE", "LWPOLYLINE"}
         THEN {e.vertices[i].x : i \in DOMAIN e.vertices}
    ELSE IF e.kind = "SPLINE" THEN {e.control_points[i].x : i \in DOMAIN e.control_points}
    ELSE {}
ContribY(e) ==
    IF e.kind = "LINE" THEN {e.start.y, e.end.y}
    ELSE IF e.kind \in {"CIRCLE", "ARC"} THEN {e.center.y - e.radius, e.center.y + e.radius}
    ELSE IF e.kind \in {"POLYLINE", "LWPOLYLINE"}
         THEN {e.vertices[i].y : i \in DOMAIN e.vertices}
    ELSE IF e.kind = "SPLINE" THEN {e.control_points[i].y : i \in DOMAIN e.control_points}
    ELSE {}
AllX(msp) == UNION {ContribX(msp[i]) : i \in DOMAIN msp}
AllY(msp) == UNION {ContribY(msp[i]) : i \in DOMAIN msp}
SetMax(S) == CHOOSE m \in S : \A v \in S : v <= m
SetMin(S) == CHOOSE m \in S : \A v \in S : m <= v

\* msp with entity e put before position pos + 1 (pos = Len(msp): at the end)
InsertAt(msp, pos, e) == SubSeq(msp, 1, pos) \o <<e>> \o SubSeq(msp, pos + 1, Len(msp))

----------------------------------------------------------------------------
(* Claims about get_dimensions, checked under SpecDims *)

\* C1: whenever some primitive contributes a coordinate, get_dimensions
\* returns width = max(X) - min(X) and height = max(Y) - min(Y) over the
\* contributions of all primitives (endpoints of lines, center -/+ radius of
\* circles and arcs, every vertex of a polyline, every control point of a
\* spline).
C1_ExtentIsSpanOfContributions ==
    (pc = "ret" /\ AllX(doc) # {}) =>
        /\ Defined(dims)
        /\ dims.width.val = SetMax(AllX(doc)) - SetMin(AllX(doc))
        /\ dims.height.val = SetMax(AllY(doc)) - SetMin(AllY(doc))

\* C2: get_dimensions returns (None, None) exactly when no primitive
\* contributes a coordinate, and a defined extent whenever one does.
C2_UndefinedIffNoContribution ==
    pc = "ret" =>
        /\ Undefined(dims) <=> AllX(doc) = {}
        /\ AllX(doc) # {} => Defined(dims)

\* the modelspace without its entities of unrecognized kinds
Recognized(e) == e \notin Unrecognized
WithoutUnrecognized(msp) == SelectSeq(msp, Recognized)

\* C3: entities of an unrecognized kind are skipped without error: a
\* modelspace of only such entities yields (None, None), and a modelspace
\* with any number of them at any positions has the outcome that the
\* modelspace without them has (so has one with a further one put anywhere).
C3_UnrecognizedSkipped ==
    pc = "ret" =>
        /\ (\A i \in DOMAIN doc : doc[i] \in Unrecognized) => Undefined(dims)
        /\ get_dimensions(WithoutUnrecognized(doc)) = dims
        /\ \A u \in Unrecognized : \A pos \in 0..Len(doc) :
              get_dimensions(InsertAt(doc, pos, u)) = dims

\* a modelspace with an unrecognized entity next to a contributing one
C3_Witness ==
    /\ pc = "ret"
    /\ Len(doc) = 2
    /\ doc[1] \in Unrecognized
    /\ doc[2] \in Lines
    /\ Defined(dims)
    /\ dims.width.val = 1

\* C4: a single point-like primitive (a circle of radius 0, or a line whose
\* start equals its end) yields the defined extent 0 x 0.
PointLike(e) ==
    \/ e.kind = "CIRCLE" /\ e.radius = 0
    \/ e.kind = "LINE" /\ e.start = e.end

C4_PointLikeIsZeroExtent ==
    (pc = "ret" /\ Len(doc) = 1 /\ PointLike(doc[1])) =>
        /\ Defined(dims)
        /\ dims.width.val = 0
        /\ dims.height.val = 0

C4_Witness ==
    /\ pc = "ret"
    /\ Len(doc) = 1
    /\ doc[1].kind = "CIRCLE"
    /\ doc[1].radius = 0
    /\ dims = [exc |-> NoExc, width |-> Num(0), height |-> Num(0)]

\* the permutations of a sequence
Perms(msp) ==
    {[i \in DOMAIN msp |-> msp[f[i]]] :
        f \in {g \in [DOMAIN msp -> DOMAIN msp] : \A i, j \in DOMAIN msp : g[i] = g[j] => i = j}}

C7_Monotone ==
    (pc = "ret" /\ Defined(dims)) =>
        \A p \in Entities : \A pos \in 0..Len(doc) :
            LET r == get_dimensions(InsertAt(doc, pos, p))
            IN /\ Defined(r)
               /\ r.width.val >= dims.width.val
               /\ r.height.val >= dims.height.val

\* C8: a defined extent has width >= 0 and height >= 0, also when circles or
\* arcs have a negative radius.
C8_ExtentNonNegative ==
    (pc = "ret" /\ Defined(dims)) => (dims.width.val >= 0 /\ dims.height.val >= 0)

\* a circle of negative radius: center - radius is pushed before center + radius
\* and is the larger of the two
C8_Witness ==
    /\ pc = "ret"
    /\ \E i \in DOMAIN doc : doc[i].kind \in {"CIRCLE", "ARC"} /\ doc[i].radius < 0
    /\ Defined(dims)
    /\ dims.width.val = 2

\* C9: get_dimensions never raises: the outcome is (None, None) or an extent.
C9_NeverRaises ==
    pc = "ret" => Returned(dims)

----------------------------------------------------------------------------
(* Claims about the upload handlers, checked under Spec *)

\* the presentation step has run: get_dimensions returned and the handler ended
Presented == pc = "done" /\ Returned(dims)

UnableText == "Unable to determine dimensions."

\* C5: after get_dimensions returns, the page shows the width and height
\* exactly when the extent is defined (0 x 0 included) and the message
\* "Unable to determine dimensions." exactly when it is (None, None); never
\* both, never neither.
C5_PresentationMatchesExtent ==
    /\ ~(Shows("dimensions") /\ ShowsText(UnableText))
    /\ Presented =>
          /\ Shows("dimensions") \/ ShowsText(UnableText)
          /\ Defined(dims) <=> Shows("dimensions")
          /\ Undefined(dims) <=> ShowsText(UnableText)
          /\ Defined(dims) =>
                \E i \in DOMAIN ui :
                    /\ ui[i].el = "dimensions"
                    /\ ui[i].a = fmt2f(dims.width.val)
                    /\ ui[i].b = fmt2f(dims.height.val)

\* the extent 0 x 0 has been presented as dimensions
C5_Witness ==
    /\ Presented
    /\ dims.width = Num(0)
    /\ dims.height = Num(0)
    /\ Shows("dimensions")
    /\ ~ShowsText(UnableText)

\* the format a file name's extension stands for
FormatOf(ext) ==
    IF lower(ext) = ".dxf" THEN "DXF"
    ELSE IF lower(ext) \in {".stp", ".step"} THEN "STEP"
    ELSE IF lower(ext) \in {".iges", ".igs"} THEN "IGES"
    ELSE "other"

\* main has run on a picked file, in the combined viewer dxf_stp.py
Dispatched == app = "dxf_stp" /\ pc # "start"

\* C10 as stated: a picked file of each of the formats DXF, STEP and IGES
\* reaches a handler instead of being rejected.
C10_AllThreeFormatsHandled ==
    (Dispatched /\ FormatOf(picked.ext) \in {"DXF", "STEP", "IGES"}) =>
        /\ handler # "none"
        /\ ~ShowsText("Unsupported file type.")

\* C10 as amended: a picked DXF file reaches process_dxf and a picked STEP
\* file (.stp or .step) reaches process_stp, neither is rejected as
\* unsupported; a picked IGES file reaches no handler: the uploader does not
\* return it, and the page shows no preview and no dimensions.
C10_DxfAndStepHandledIgesNot ==
    Dispatched =>
        /\ FormatOf(picked.ext) = "DXF" => handler = "process_dxf"
        /\ FormatOf(picked.ext) = "STEP" => handler = "process_stp"
        /\ FormatOf(picked.ext) \in {"DXF", "STEP"} =>
              (uploaded_file = picked /\ ~ShowsText("Unsupported file type."))
        /\ FormatOf(picked.ext) = "IGES" =>
              (handler = "none" /\ uploaded_file = NoFile /\ pc = "done" /\ ui = <<>>)

\* a .stp file went through process_stp up to its chart and dimensions
C10_Witness ==
    /\ Dispatched
    /\ lower(picked.ext) = ".stp"
    /\ handler = "process_stp"
    /\ pc = "done"
    /\ Shows("plotly_chart")
    /\ Shows("stp_dimensions")

----------------------------------------------------------------------------
(* Claims about concurrent invocations, checked under SpecConc *)

\* how many entities invocation c has been through
Visited(c) == IF c.acc.exc # NoExc THEN c.next ELSE c.next - 1

\* C11: two invocations of get_dimensions that run side by side on their own
\* modelspaces, their steps interleaved in any order, each hold at every
\* step the lists the invocation holds at that step when it runs alone, and
\* each end with the outcome get_dimensions has on its modelspace alone.
C11_ConcurrentCallsIndependent ==
    \A k \in DOMAIN calls :
        /\ calls[k].acc = entity_loop(EmptyAcc, SubSeq(calls[k].msp, 1, Visited(calls[k])))
        /\ calls[k].pc = "done" => calls[k].result = get_dimensions(calls[k].msp)
        /\ calls[k].pc # "done" => calls[k].result = NotCalled

\* the second invocation has returned an extent while the first, on another
\* modelspace, is in the middle of its loop with coordinates in its lists
C11_Witness ==
    /\ pc = "concurrent"
    /\ calls[1].pc = "loop"
    /\ Len(calls[1].msp) = 2
    /\ calls[1].next = 2
    /\ calls[1].acc.x_coords # <<>>
    /\ calls[2].pc = "done"
    /\ Defined(calls[2].result)
    /\ calls[2].result.width.val = 2
    /\ calls[2].msp # calls[1].msp
    /\ calls[2].acc.x_coords # calls[1].acc.x_coords

----------------------------------------------------------------------------
(* Claims about the course of one upload, checked under Spec *)

\* the handling of the upload has ended
HandlingEnded == pc = "done" /\ handler # "none"

\* C12: every temporary file made while an upload is handled (the .dxf file
\* of load_dxf, the .step file of process_stp, the .stl file of
\* shape_to_mesh) has been deleted when the handling ends, on every path.
C12_TempFilesDeleted ==
    HandlingEnded => tmp = {}

IsPreview(e) == e.el \in {"image", "plotly_chart"}
IsDimensions(e) == e.el \in {"dimensions", "stp_dimensions"}

\* a stage of the handling failed: reading gave no shape, meshing gave no
\* vertices or none to display, get_dimensions raised, or an error is shown
StageFailed ==
    \/ shape = "none"
    \/ vertices \in {"none", "empty"}
    \/ ~Returned(dims) /\ dims # NotCalled
    \/ Shows("error")

\* C13: dimensions are displayed only after the preview has been displayed,
\* and when a stage fails an error message is displayed and no dimensions
\* are.
C13_DimensionsAfterPreviewOnly ==
    /\ \A i \in DOMAIN ui :
          IsDimensions(ui[i]) => \E j \in 1..(i - 1) : IsPreview(ui[j])
    /\ (HandlingEnded /\ StageFailed) =>
          /\ Shows("error")
          /\ ~\E i \in DOMAIN ui : IsDimensions(ui[i])

====
